---------------------------- MODULE Spec2Model ----------------------------
(***************************************************************************)
(* State-machine model of sharpy/io/network_interface.py: the UDP          *)
(* channels (Network, OutNetwork, InNetwork) that exchange fixed-length    *)
(* records between the simulation thread and external peers, the          *)
(* module-level selector `sel` they register with, and the NetworkLoader   *)
(* that resolves the byte ordering.                                        *)
(*                                                                         *)
(* The queues, the SetOfVariables codec (encode) and the message decoder   *)
(* are defined outside network_interface.py; they are modelled from the    *)
(* specification (sections 3, 5 and 7) and marked as such where defined.   *)
(***************************************************************************)
EXTENDS Integers, Sequences, FiniteSets, TLC

VARIABLES
    loader_byte_ordering,  \* NetworkLoader.byte_ordering
    loader_call,           \* history: the token of the last NetworkLoader.initialise
                           \* call ("none": no call yet) and the exception it raised
    out_pc,                \* where OutNetwork.process_events stands: "idle" (not
                           \* running), "get" (the condition of line 242 held,
                           \* queue.get() comes next), "blocked" (in queue.get())
    queue_bound,           \* channel -> whether set_queue has bound a queue to it
    out_byte_ordering,     \* OutNetwork._byte_ordering
    sel,                   \* module-level selector: channel -> registered events (0: none)
    out_sock,              \* OutNetwork.sock: "none" | "unbound" | "bound" | "closed"
    out_settings,          \* OutNetwork.settings (NoSettings before initialise)
    out_clients,           \* OutNetwork.clients (a Python list)
    out_queue,             \* the output queue bound with set_queue
    out_inbox,             \* datagrams waiting in the output socket's receive buffer
    out_puts,              \* history: snapshots written to out_queue since the last get
    latest,                \* history: the snapshot most recently written to out_queue
    out_last,              \* history: what the last OutNetwork.process_events call did
    out_old_socks,         \* sockets the output channel created earlier, no longer
                           \* referenced by OutNetwork.sock and still open
    out_call,              \* history: what the last call of initialise, close,
                           \* add_client, receive or NetworkLoader.initialise did
    in_sock,               \* InNetwork.sock: "none" | "unbound" | "bound"
    in_clients,            \* InNetwork.clients
    in_byte_ordering,      \* InNetwork._byte_ordering
    in_message_length,     \* InNetwork._in_message_length
    in_recv_buffer,        \* InNetwork._recv_buffer
    in_queue,              \* the input queue bound with set_queue
    in_over,               \* history: length of _recv_buffer when it first exceeded the
                           \* message length (0: it has not since it was last empty)
    in_last                \* history: what the last InNetwork.process_events call did

out_vars == <<out_sock, out_settings, out_clients, out_queue, out_inbox, out_puts,
              latest, out_last, out_old_socks, out_call>>
in_vars == <<in_sock, in_clients, in_byte_ordering, in_message_length, in_recv_buffer,
             in_queue, in_over, in_last>>
link_vars == <<out_pc, queue_bound, out_byte_ordering>>
vars == <<loader_byte_ordering, loader_call, link_vars, sel, out_vars, in_vars>>

---------------------------------------------------------------------------
(* Bounds of the model *)

MaxSnapshots == 3      \* snapshots the simulation thread produces
MaxInbox == 1          \* datagrams waiting in one socket's receive buffer
MaxDatagram == 3       \* bytes in one inbound datagram
MaxBuffer == 5         \* bytes accumulated in InNetwork._recv_buffer
MaxInQueue == 1        \* records waiting in the input queue
MaxOldSocks == 1       \* earlier sockets of a channel that are still open
MaxRun == 3            \* consecutive datagrams counted from one source
MaxRecords == 2        \* records waiting in the input queue when frames are followed

---------------------------------------------------------------------------
(* Values *)

Min(a, b) == IF a < b THEN a ELSE b

\* (host, port) tuples
Address == {"A", "B", "C"} \X {1, 2}
\* the peers that send datagrams to the channels
Peers == {<<"A", 1>>, <<"C", 2>>}

Bytes == {0, 1}
RECURSIVE BytesUpTo(_)
BytesUpTo(n) ==
    IF n = 0 THEN {<<>>}
    ELSE LET shorter == BytesUpTo(n - 1)
         IN shorter \cup {Append(s, b) : s \in {t \in shorter : Len(t) = n - 1}, b \in Bytes}

ByteOrders == {"<", ">"}

\* selectors.EVENT_READ, selectors.EVENT_WRITE
EVENT_READ == 1
EVENT_WRITE == 2

\* Python's `a and b` used as a condition: true iff both operands are truthy
\* (a non-zero integer is truthy); it is not a bitwise intersection.
PyAndTruthy(a, b) == a # 0 /\ b # 0

\* get_events(mode); -1 stands for the ValueError of an invalid mode
get_events(mode) ==
    IF mode = "r" THEN EVENT_READ
    ELSE IF mode = "w" THEN EVENT_WRITE
    ELSE IF mode = "rw" THEN EVENT_READ + EVENT_WRITE
    ELSE -1

Modes == {"r", "w", "rw"}

\* the readiness test as a bitwise intersection, `mask & selectors.EVENT_READ`
read_ready_bitwise(mask) == mask \in {EVENT_READ, EVENT_READ + EVENT_WRITE}

\* `if mask and selectors.EVENT_WRITE and not self.queue.empty():` without
\* the emptiness test
write_ready_unchecked(mask, queue_empty) == PyAndTruthy(mask, EVENT_WRITE)

\* `if mask and selectors.EVENT_READ:` of both process_events methods
read_ready(mask) == PyAndTruthy(mask, EVENT_READ)

\* `if mask and selectors.EVENT_WRITE and not self.queue.empty():`
write_ready(mask, queue_empty) == PyAndTruthy(mask, EVENT_WRITE) /\ ~queue_empty

\* a read branch that receives whatever the mode of the channel
on_demand_read_always(mask, send_on_demand) == read_ready(mask)

\* the nested conditions of the read branch of OutNetwork.process_events:
\* `if mask and selectors.EVENT_READ:` then `if self.settings['send_on_demand']:`
on_demand_read(mask, send_on_demand) == read_ready(mask) /\ send_on_demand

\* the length test satisfied one byte early
enough_bytes_read_early(buffer, length) == Len(buffer) >= length - 1

\* `if len(self._recv_buffer) == self._in_message_length:`
enough_bytes_read(buffer, length) == Len(buffer) = length

\* clean_up without the reset: the completed frame stays in the buffer
clean_up_keep(buffer) == buffer

\* `self._recv_buffer = b''  # clean up`, after a record was put in the queue
clean_up(buffer) == <<>>

\* What sel.select() reports for a registered UDP socket: readable when a
\* datagram waits in its receive buffer, always writable; restricted to the
\* registered events.
SelectMask(events, inbox) ==
    (IF events \in {EVENT_READ, EVENT_READ + EVENT_WRITE} /\ inbox # <<>> THEN EVENT_READ ELSE 0)
    + (IF events \in {EVENT_WRITE, EVENT_READ + EVENT_WRITE} THEN EVENT_WRITE ELSE 0)

---------------------------------------------------------------------------
(* Network: shared behaviour *)

\* _add_client without the membership test
_add_client_unchecked(clients, client_addr) == Append(clients, client_addr)

\* Network._add_client
_add_client(clients, client_addr) ==
    IF \E i \in 1..Len(clients) : clients[i] = client_addr
    THEN clients
    ELSE Append(clients, client_addr)

\* Network.add_client with a list argument
RECURSIVE add_client_list(_, _)
add_client_list(clients, addrs) ==
    IF addrs = <<>> THEN clients
    ELSE add_client_list(_add_client(clients, Head(addrs)), Tail(addrs))

\* Network.add_client: the argument is a tuple, a list of tuples, or of
\* another type (then nothing is added)
add_client(clients, client_addr) ==
    IF client_addr.type = "tuple" THEN _add_client(clients, client_addr.value)
    ELSE IF client_addr.type = "list" THEN add_client_list(clients, client_addr.value)
    ELSE clients

\* list(zip(a, b)): pairs up to the shorter list
zip(a, b) == [i \in 1..Min(Len(a), Len(b)) |-> <<a[i], b[i]>>]

\* sock.recvfrom(msg_length) on a UDP socket: the first waiting datagram,
\* cut to msg_length bytes (the rest of the datagram is lost)
recvfrom(inbox, msg_length) ==
    [msg |-> SubSeq(Head(inbox).data, 1, Min(Len(Head(inbox).data), msg_length)),
     addr |-> Head(inbox).src]

\* what Network.receive returns, as the tuple of the returned values:
\* `return r_msg`, the bytes alone
receive_return(r) == <<r.msg>>

\* send without the list branch: a list of destinations is sent nothing
send_tuple_only(msg, dest_addr, fail_at) == [sent |-> <<>>, error |-> "none"]

\* send that leaves the loop after the first destination
send_first_only(msg, dest_addr, fail_at) ==
    LET n == IF fail_at = 1 \/ dest_addr = <<>> THEN 0 ELSE 1
    IN [sent |-> [i \in 1..n |-> [dest |-> dest_addr[i], payload |-> msg]],
        error |-> IF fail_at = 1 /\ dest_addr # <<>> THEN "OSError" ELSE "none"]

\* Network.send with a list: _sendto to each address in order.  fail_at = k > 0
\* makes the k-th sock.sendto raise OSError, which ends the loop.
send(msg, dest_addr, fail_at) ==
    LET n == IF fail_at \in 1..Len(dest_addr) THEN fail_at - 1 ELSE Len(dest_addr)
    IN [sent |-> [i \in 1..n |-> [dest |-> dest_addr[i], payload |-> msg]],
        error |-> IF fail_at \in 1..Len(dest_addr) THEN "OSError" ELSE "none"]

\* Network.send without the tuple branch
send_dispatch_list_only(msg, dest_addr, fail_at) ==
    IF dest_addr.type = "list" THEN send(msg, dest_addr.value, fail_at)
    ELSE [sent |-> <<>>, error |-> "none"]

\* Network.send: one _sendto per element when dest_addr is a list, one
\* _sendto when it is a tuple, nothing for any other type
send_dispatch(msg, dest_addr, fail_at) ==
    IF dest_addr.type = "list" THEN send(msg, dest_addr.value, fail_at)
    ELSE IF dest_addr.type = "tuple" THEN send(msg, <<dest_addr.value>>, fail_at)
    ELSE [sent |-> <<>>, error |-> "none"]

---------------------------------------------------------------------------
(* Collaborators outside network_interface.py, modelled from the specification *)

\* SetOfVariables.encode(): a fixed-length record under the set's byte order.
\* The snapshot's value is packed as a 16-bit integer.
encode(set_of_vars) ==
    LET lo == set_of_vars.value % 256
        hi == (set_of_vars.value \div 256) % 256
    IN IF set_of_vars.order = "<" THEN <<lo, hi>> ELSE <<hi, lo>>

\* The output queue: a put replaces any unread prior value (latest wins)
OutQueuePut(queue, item) == <<item>>

\* The input queue: lossless FIFO
InQueuePut(queue, item) == Append(queue, item)

\* message_interface.decoder: a length-correct buffer is still malformed
\* (CodecError) when it does not start with the header byte
HeaderByte == 1
Decodable(buffer) == buffer # <<>> /\ buffer[1] = HeaderByte

Reverse(s) == [i \in 1..Len(s) |-> s[Len(s) + 1 - i]]

\* the decoded values: the payload bytes after the header, most significant last
decoder(buffer, byte_ordering) ==
    IF byte_ordering = "<" THEN Tail(buffer) ELSE Reverse(Tail(buffer))

---------------------------------------------------------------------------
(* Initial state: the objects as their constructors leave them *)

NoSettings == [send_on_demand |-> TRUE, destination_address |-> <<>>,
               destination_ports |-> <<>>, set |-> FALSE]

NoAddr == <<"", 0>>
NoSnapshot == [value |-> 0, order |-> "<"]

OutNoCall == [called |-> FALSE, mask |-> 0, request |-> NoAddr, sent |-> <<>>,
              error |-> "none", dequeued |-> NoSnapshot, latest |-> NoSnapshot,
              puts |-> 0]

InNoCall == [called |-> FALSE, mask |-> 0, length |-> 0, received |-> FALSE,
             nrecv |-> 0, buffer |-> <<>>, over |-> 0, error |-> "none",
             qbefore |-> <<>>, qafter |-> <<>>]

NoDest == [type |-> "none", value |-> <<>>]

NoCall == [op |-> "none", error |-> "none", sock |-> "none", events |-> 0,
           src |-> NoAddr, run |-> 0, returned |-> <<>>,
           msg |-> <<>>, dest |-> NoDest, sent |-> <<>>]

DefaultMessageLength == 1024

Init ==
    /\ loader_byte_ordering = "<"
    /\ loader_call = [token |-> "none", error |-> "none"]
    /\ out_pc = "idle"
    /\ queue_bound = [c \in {"out", "in"} |-> FALSE]
    /\ out_byte_ordering = "<"
    /\ sel = [c \in {"out", "in"} |-> 0]
    /\ out_sock = "none"
    /\ out_settings = NoSettings
    /\ out_clients = <<>>
    /\ out_queue = <<>>
    /\ out_inbox = <<>>
    /\ out_puts = 0
    /\ latest = NoSnapshot
    /\ out_last = OutNoCall
    /\ out_old_socks = <<>>
    /\ out_call = NoCall
    /\ in_sock = "none"
    /\ in_clients = <<>>
    /\ in_byte_ordering = "<"
    /\ in_message_length = DefaultMessageLength
    /\ in_recv_buffer = <<>>
    /\ in_queue = <<>>
    /\ in_over = 0
    /\ in_last = InNoCall

---------------------------------------------------------------------------
(* NetworkLoader *)

\* the byte ordering tokens a configuration may give; "other" stands for
\* any token that is neither 'little' nor 'big'
ByteOrderTokens == {"little", "big", "other"}

\* the if/elif/else of NetworkLoader.initialise with an else branch that
\* keeps the constructor's ordering instead of raising
resolve_byte_ordering_lenient(token, current) ==
    IF token = "little" THEN [byte_ordering |-> "<", error |-> "none"]
    ELSE IF token = "big" THEN [byte_ordering |-> ">", error |-> "none"]
    ELSE [byte_ordering |-> current, error |-> "none"]

\* the if/elif/else of NetworkLoader.initialise: the ordering the loader
\* holds after the call and the exception the call raised
resolve_byte_ordering(token, current) ==
    IF token = "little" THEN [byte_ordering |-> "<", error |-> "none"]
    ELSE IF token = "big" THEN [byte_ordering |-> ">", error |-> "none"]
    ELSE [byte_ordering |-> current, error |-> "KeyError"]

\* NetworkLoader.initialise: resolves the byte ordering token.  It
\* constructs no channel: get_networks does, in a later call.
NetworkLoaderInitialise(token) ==
    /\ token \in ByteOrderTokens
    /\ loader_byte_ordering' = resolve_byte_ordering(token, loader_byte_ordering).byte_ordering
    /\ loader_call' = [token |-> token,
                       error |-> resolve_byte_ordering(token, loader_byte_ordering).error]
    /\ UNCHANGED <<link_vars, sel, out_vars, in_vars>>

---------------------------------------------------------------------------
(* The harness binds its queues *)

\* Network.set_queue, called by the owner of the channels before the I/O
\* loop starts
set_queue(channel) ==
    /\ queue_bound' = [queue_bound EXCEPT ![channel] = TRUE]
    /\ UNCHANGED <<loader_byte_ordering, loader_call, out_pc, out_byte_ordering, sel,
                   out_vars, in_vars>>

---------------------------------------------------------------------------
(* OutNetwork *)

\* the destination lists a configuration may give: none, one, two distinct,
\* the same address twice, and more hosts than ports
DestinationSettings ==
    {[destination_address |-> <<>>, destination_ports |-> <<>>],
     [destination_address |-> <<"A">>, destination_ports |-> <<1>>],
     [destination_address |-> <<"A", "B">>, destination_ports |-> <<1, 1>>],
     [destination_address |-> <<"A", "A">>, destination_ports |-> <<1, 1>>],
     [destination_address |-> <<"A", "B">>, destination_ports |-> <<1>>]}

\* OutNetwork.initialise (with Network.initialise), whatever the state of the
\* channel: a new socket is created and replaces self.sock, then it is bound
\* (OSError when bind_ok is false), then the events of `mode` are computed
\* (ValueError for an invalid mode) and the socket is registered; then the
\* configured destinations are added to the clients.  Push mode without a
\* destination is only logged as a warning.
\* The socket self.sock referred to before is neither unregistered nor
\* closed: when it is registered the selector keeps it alive (and open);
\* otherwise nothing refers to it any more and the interpreter finalises it.
OutNetworkInitialise(mode, send_on_demand, dest, bind_ok) ==
    LET kept == IF out_sock = "bound" /\ sel["out"] # 0
                THEN Append(out_old_socks, [events |-> sel["out"]])
                ELSE out_old_socks
        called == [NoCall EXCEPT !.op = "initialise", !.sock = out_sock,
                                 !.events = sel["out"]]
    IN
    /\ Len(kept) <= MaxOldSocks
    /\ out_old_socks' = kept
    /\ out_settings' = [send_on_demand |-> send_on_demand,
                        destination_address |-> dest.destination_address,
                        destination_ports |-> dest.destination_ports,
                        set |-> TRUE]
    /\ IF ~bind_ok
       THEN /\ out_sock' = "unbound"
            /\ sel' = [sel EXCEPT !["out"] = 0]
            /\ out_call' = [called EXCEPT !.error = "OSError"]
            /\ UNCHANGED out_clients
       ELSE /\ out_sock' = "bound"
            /\ IF get_events(mode) = -1
               THEN /\ sel' = [sel EXCEPT !["out"] = 0]
                    /\ out_call' = [called EXCEPT !.error = "ValueError"]
                    /\ UNCHANGED out_clients
               ELSE /\ sel' = [sel EXCEPT !["out"] = get_events(mode)]
                    /\ out_call' = called
                    /\ out_clients' = add_client_list(out_clients,
                           zip(dest.destination_address, dest.destination_ports))
    /\ UNCHANGED <<loader_byte_ordering, loader_call, link_vars, out_queue, out_inbox, out_puts,
                   latest, out_last, in_vars>>

\* the first initialise of the output channel, as get_networks calls it on
\* the channel it has just constructed.  get_networks reads the settings
\* that NetworkLoader.initialise stores.
OutInitialise(mode, send_on_demand, dest, bind_ok) ==
    /\ loader_call.token # "none"
    /\ out_sock = "none"
    /\ OutNetworkInitialise(mode, send_on_demand, dest, bind_ok)

\* The simulation thread writes a snapshot to the output queue.  The
\* snapshot carries the byte ordering the loader gave its SetOfVariables.
SimPut ==
    /\ latest.value < MaxSnapshots
    /\ latest' = [value |-> latest.value + 1, order |-> loader_byte_ordering]
    /\ out_queue' = OutQueuePut(out_queue, latest')
    /\ out_puts' = out_puts + 1
    /\ UNCHANGED <<loader_byte_ordering, loader_call, link_vars, sel, out_sock, out_settings, out_clients,
                   out_old_socks, out_call,
                   out_inbox, out_last, in_vars>>

\* the payloads a request datagram may carry
RequestPayloads == {<<>>, <<1>>}

\* A peer's datagram reaches the output socket
OutDeliver(peer, data) ==
    /\ out_sock = "bound"
    /\ Len(out_inbox) < MaxInbox
    /\ out_inbox' = Append(out_inbox, [src |-> peer, data |-> data])
    /\ UNCHANGED <<loader_byte_ordering, loader_call, link_vars, sel, out_sock, out_settings, out_clients,
                   out_old_socks, out_call,
                   out_queue, out_puts, latest, out_last, in_vars>>

\* the default msg_length of Network.receive
ReceiveDefaultLength == 1024

\* OutNetwork.process_events(mask), called for the mask the selector reports,
\* once the harness has bound the output queue; the call runs to its end
\* without a step of the simulation thread in between.
OutProcessEvents(fail_at) ==
    LET mask == SelectMask(sel["out"], out_inbox)
        read_branch == on_demand_read(mask, out_settings.send_on_demand)
        observed == [called |-> TRUE, mask |-> mask, request |-> NoAddr, sent |-> <<>>,
                     error |-> "none", dequeued |-> NoSnapshot,
                     latest |-> latest, puts |-> out_puts]
    IN
    /\ queue_bound["out"]
    /\ out_pc = "idle"
    /\ sel["out"] # 0
    /\ mask # 0
    /\ IF read_branch /\ out_inbox = <<>>
       THEN \* self.receive(): recvfrom on the non-blocking socket raises
            /\ fail_at = 0
            /\ out_last' = [observed EXCEPT !.error = "BlockingIOError"]
            /\ UNCHANGED <<out_clients, out_inbox, out_queue, out_puts>>
       ELSE LET r == recvfrom(out_inbox, ReceiveDefaultLength)
                clients1 == IF read_branch THEN _add_client(out_clients, r.addr)
                            ELSE out_clients
                inbox1 == IF read_branch THEN Tail(out_inbox) ELSE out_inbox
                request == IF read_branch THEN r.addr ELSE NoAddr
                write_branch == write_ready(mask, out_queue = <<>>)
            IN
            /\ out_clients' = clients1
            /\ out_inbox' = inbox1
            /\ IF write_branch /\ out_queue = <<>>
               THEN \* self.queue.get() on an empty queue never returns
                    /\ fail_at = 0
                    /\ out_last' = [observed EXCEPT !.request = request,
                                                    !.error = "blocked"]
                    /\ UNCHANGED <<out_queue, out_puts>>
               ELSE IF write_branch
               THEN LET set_of_vars == Head(out_queue)
                        s == send(encode(set_of_vars), clients1, fail_at)
                    IN /\ fail_at \in 0..Len(clients1)
                       /\ out_queue' = Tail(out_queue)
                       /\ out_puts' = 0
                       /\ out_last' = [observed EXCEPT !.request = request,
                                                       !.dequeued = set_of_vars,
                                                       !.sent = s.sent,
                                                       !.error = s.error]
               ELSE /\ fail_at = 0
                    /\ out_last' = [observed EXCEPT !.request = request]
                    /\ UNCHANGED <<out_queue, out_puts>>
    /\ UNCHANGED <<loader_byte_ordering, loader_call, link_vars, sel, out_sock, out_settings, latest,
                   out_old_socks, out_call, in_vars>>

NextOut ==
    \/ \E token \in {"little", "big"} : NetworkLoaderInitialise(token)
    \/ \E mode \in Modes \cup {"x"}, send_on_demand \in BOOLEAN,
          dest \in DestinationSettings, bind_ok \in BOOLEAN :
            OutInitialise(mode, send_on_demand, dest, bind_ok)
    \/ set_queue("out")
    \/ SimPut
    \/ \E peer \in Peers, data \in RequestPayloads : OutDeliver(peer, data)
    \/ \E fail_at \in 0..(Len(out_clients) + 1) : OutProcessEvents(fail_at)

SpecOut == Init /\ [][NextOut]_vars

---------------------------------------------------------------------------
(* Network: the calls of a channel's life, on the output channel *)

\* the exception of sel.unregister(self.sock) for a socket the selector does
\* not hold: ValueError for None and for a closed socket (no file
\* descriptor), KeyError for an open socket that is not registered
unregister_error(sock) ==
    IF sock \in {"none", "closed"} THEN "ValueError" ELSE "KeyError"

\* an unregister that empties the selector
unregister_all(selector, channel) == [c \in DOMAIN selector |-> 0]

\* sel.unregister(self.sock) for the registered socket of `channel`
unregister(selector, channel) == [selector EXCEPT ![channel] = 0]

\* close() that also forgets the clients of the channel
OutCloseForgetting ==
    /\ out_sock = "bound" /\ sel["out"] # 0
    /\ sel' = unregister(sel, "out")
    /\ out_sock' = "closed"
    /\ out_clients' = <<>>
    /\ out_call' = [NoCall EXCEPT !.op = "close", !.sock = out_sock,
                                  !.events = sel["out"]]
    /\ UNCHANGED <<loader_byte_ordering, loader_call, link_vars, out_settings,
                   out_queue, out_inbox, out_puts, latest, out_last, out_old_socks,
                   in_vars>>

\* Network.close: sel.unregister(self.sock), then self.sock.close().  When
\* unregister raises, the socket is not closed.
OutClose ==
    LET called == [NoCall EXCEPT !.op = "close", !.sock = out_sock,
                                 !.events = sel["out"]]
    IN
    /\ IF out_sock = "bound" /\ sel["out"] # 0
       THEN /\ sel' = unregister(sel, "out")
            /\ out_sock' = "closed"
            /\ out_call' = called
       ELSE /\ out_call' = [called EXCEPT !.error = unregister_error(out_sock)]
            /\ UNCHANGED <<sel, out_sock>>
    /\ UNCHANGED <<loader_byte_ordering, loader_call, link_vars, out_settings, out_clients,
                   out_queue, out_inbox, out_puts, latest, out_last, out_old_socks,
                   in_vars>>

\* the arguments add_client is called with: a tuple, a list (also with a
\* repeated address), a string
AddClientArgs ==
    {[type |-> "tuple", value |-> <<"C", 2>>],
     [type |-> "list", value |-> <<<<"A", 1>>, <<"C", 2>>, <<"A", 1>>>>],
     [type |-> "str", value |-> <<>>]}

\* Network.add_client called by the owner of the channel
OutAddClient(client_addr) ==
    /\ out_clients' = add_client(out_clients, client_addr)
    /\ out_call' = [NoCall EXCEPT !.op = "add_client", !.sock = out_sock,
                                  !.events = sel["out"]]
    /\ UNCHANGED <<loader_byte_ordering, loader_call, link_vars, sel, out_sock, out_settings,
                   out_queue, out_inbox, out_puts, latest, out_last, out_old_socks,
                   in_vars>>

\* Network.receive() called when `arrived` (no datagram, or one) waits in the
\* socket's receive buffer: the sender becomes a client.
OutReceive(arrived) ==
    LET called == [NoCall EXCEPT !.op = "receive", !.sock = out_sock,
                                 !.events = sel["out"]]
    IN
    /\ out_sock = "bound"
    /\ IF arrived = <<>>
       THEN /\ out_call' = [called EXCEPT !.error = "BlockingIOError"]
            /\ UNCHANGED out_clients
       ELSE LET r == recvfrom(arrived, ReceiveDefaultLength)
                run == IF out_call.op = "receive" /\ out_call.src = r.addr
                       THEN out_call.run + 1 ELSE 1
            IN /\ run <= MaxRun
               /\ out_clients' = _add_client(out_clients, r.addr)
               /\ out_call' = [called EXCEPT !.src = r.addr, !.run = run,
                                             !.returned = receive_return(r)]
    /\ UNCHANGED <<loader_byte_ordering, loader_call, link_vars, sel, out_sock, out_settings,
                   out_queue, out_inbox, out_puts, latest, out_last, out_old_socks,
                   in_vars>>

\* the destinations send is called with: a tuple, lists (empty, of two
\* addresses, of one address twice), a string
SendDests ==
    {[type |-> "tuple", value |-> <<"A", 1>>],
     [type |-> "list", value |-> <<>>],
     [type |-> "list", value |-> <<<<"C", 2>>, <<"A", 1>>>>],
     [type |-> "list", value |-> <<<<"A", 1>>, <<"A", 1>>>>],
     [type |-> "str", value |-> <<>>]}

\* the payloads send is called with
SendPayloads == {<<0, 1>>}

\* the number of sock.sendto calls that send(msg, dest_addr) would make
SendCount(dest_addr) ==
    IF dest_addr.type = "list" THEN Len(dest_addr.value)
    ELSE IF dest_addr.type = "tuple" THEN 1 ELSE 0

\* Network.send(msg, dest_addr) called by the owner of the channel; the
\* fail_at-th sock.sendto raises OSError (0: none does)
OutSend(msg, dest_addr, fail_at) ==
    LET s == send_dispatch(msg, dest_addr, fail_at)
    IN
    /\ out_sock = "bound"
    /\ fail_at \in 0..SendCount(dest_addr)
    /\ out_call' = [NoCall EXCEPT !.op = "send", !.sock = out_sock,
                                  !.events = sel["out"], !.msg = msg,
                                  !.dest = dest_addr, !.sent = s.sent,
                                  !.error = s.error]
    /\ UNCHANGED <<loader_byte_ordering, loader_call, link_vars, sel, out_sock,
                   out_settings, out_clients, out_queue, out_inbox, out_puts, latest,
                   out_last, out_old_socks, in_vars>>

\* what may wait in the output socket's receive buffer when receive is called
OutArrivals ==
    {<<>>} \cup {<<[src |-> peer, data |-> <<1>>]>> : peer \in Peers}

\* the destination lists of the configurations the channel is initialised
\* with here: none, and the same address twice
LifeDestinations ==
    {d \in DestinationSettings : d.destination_address \in {<<>>, <<"A", "A">>}}

NextLife ==
    \/ \E token \in ByteOrderTokens : NetworkLoaderInitialise(token)
    \/ \E mode \in Modes \cup {"x"}, send_on_demand \in BOOLEAN,
          dest \in LifeDestinations, bind_ok \in BOOLEAN :
            OutNetworkInitialise(mode, send_on_demand, dest, bind_ok)
    \/ OutClose
    \/ \E client_addr \in AddClientArgs : OutAddClient(client_addr)
    \/ \E arrived \in OutArrivals : OutReceive(arrived)
    \/ \E msg \in SendPayloads, dest_addr \in SendDests, fail_at \in 0..2 :
            OutSend(msg, dest_addr, fail_at)

SpecLife == Init /\ [][NextLife]_vars

---------------------------------------------------------------------------
(* OutNetwork.process_events interleaved with the simulation thread *)

\* The first part of OutNetwork.process_events, up to the condition of its
\* second `if` (lines 231-242): the read branch, then the test
\* `mask and selectors.EVENT_WRITE and not self.queue.empty()`.  When the
\* test holds the call stands before self.queue.get().
OutProcessEventsCheck ==
    LET mask == SelectMask(sel["out"], out_inbox)
        read_branch == on_demand_read(mask, out_settings.send_on_demand)
        observed == [called |-> TRUE, mask |-> mask, request |-> NoAddr, sent |-> <<>>,
                     error |-> "none", dequeued |-> NoSnapshot,
                     latest |-> latest, puts |-> out_puts]
    IN
    /\ queue_bound["out"]
    /\ out_pc = "idle"
    /\ sel["out"] # 0
    /\ mask # 0
    /\ IF read_branch /\ out_inbox = <<>>
       THEN \* self.receive(): recvfrom on the non-blocking socket raises
            /\ out_last' = [observed EXCEPT !.error = "BlockingIOError"]
            /\ UNCHANGED <<out_pc, out_clients, out_inbox>>
       ELSE LET r == recvfrom(out_inbox, ReceiveDefaultLength)
            IN /\ out_clients' = IF read_branch THEN _add_client(out_clients, r.addr)
                                 ELSE out_clients
               /\ out_inbox' = IF read_branch THEN Tail(out_inbox) ELSE out_inbox
               /\ out_last' = [observed EXCEPT
                                 !.request = IF read_branch THEN r.addr ELSE NoAddr]
               /\ out_pc' = IF write_ready(mask, out_queue = <<>>) THEN "get" ELSE "idle"
    /\ UNCHANGED <<loader_byte_ordering, loader_call, queue_bound, out_byte_ordering, sel,
                   out_sock, out_settings, out_queue, out_puts, latest, out_old_socks,
                   out_call, in_vars>>

\* The second part (lines 244-250): self.queue.get(), which waits while the
\* queue is empty, then encode and send to the clients.
OutProcessEventsGet(fail_at) ==
    /\ out_pc \in {"get", "blocked"}
    /\ IF out_queue = <<>>
       THEN /\ fail_at = 0
            /\ out_pc' = "blocked"
            /\ out_last' = [out_last EXCEPT !.error = "blocked"]
            /\ UNCHANGED <<out_queue, out_puts>>
       ELSE LET set_of_vars == Head(out_queue)
                s == send(encode(set_of_vars), out_clients, fail_at)
            IN /\ fail_at \in 0..Len(out_clients)
               /\ out_pc' = "idle"
               /\ out_queue' = Tail(out_queue)
               /\ out_puts' = 0
               /\ out_last' = [out_last EXCEPT !.dequeued = set_of_vars,
                                               !.sent = s.sent,
                                               !.error = s.error]
    /\ UNCHANGED <<loader_byte_ordering, loader_call, queue_bound, out_byte_ordering, sel,
                   out_sock, out_settings, out_clients, out_inbox, latest,
                   out_old_socks, out_call, in_vars>>

NextRace ==
    \/ NetworkLoaderInitialise("little")
    \/ \E mode \in Modes, send_on_demand \in BOOLEAN, dest \in LifeDestinations :
            OutInitialise(mode, send_on_demand, dest, TRUE)
    \/ set_queue("out")
    \/ SimPut
    \/ \E peer \in Peers : OutDeliver(peer, <<>>)
    \/ OutProcessEventsCheck
    \/ \E fail_at \in 0..(Len(out_clients) + 1) : OutProcessEventsGet(fail_at)

SpecRace == Init /\ [][NextRace]_vars

---------------------------------------------------------------------------
(* InNetwork *)

\* the message lengths the harness may set (the constructor leaves 1024)
MessageLengths == {2, 3}

\* InNetwork.initialise is Network.initialise: create, bind, register
InInitialise(mode, bind_ok) ==
    /\ in_sock = "none"
    /\ IF ~bind_ok
       THEN /\ in_sock' = "unbound"
            /\ UNCHANGED sel
       ELSE /\ in_sock' = "bound"
            /\ IF get_events(mode) = -1
               THEN UNCHANGED sel
               ELSE sel' = [sel EXCEPT !["in"] = get_events(mode)]
    /\ UNCHANGED <<loader_byte_ordering, loader_call, link_vars, out_vars, in_clients, in_byte_ordering,
                   in_message_length, in_recv_buffer, in_queue, in_over, in_last>>

\* InNetwork.set_message_length
set_message_length(value) ==
    /\ in_message_length' = value
    /\ UNCHANGED <<loader_byte_ordering, loader_call, link_vars, sel, out_vars, in_sock, in_clients,
                   in_byte_ordering, in_recv_buffer, in_queue, in_over, in_last>>

\* Network.set_byte_ordering on the input channel
set_byte_ordering(value) ==
    /\ in_byte_ordering' = value
    /\ UNCHANGED <<loader_byte_ordering, loader_call, link_vars, sel, out_vars, in_sock, in_clients,
                   in_message_length, in_recv_buffer, in_queue, in_over, in_last>>

\* the peers that send records to the input channel
InPeers == {<<"A", 1>>}

\* the datagrams a peer may have sent to the input socket
InDatagrams ==
    {[src |-> peer, data |-> data] : peer \in InPeers, data \in BytesUpTo(MaxDatagram)}

\* what may wait in the input socket's receive buffer at an event: nothing or a datagram
Arrivals == {<<>>} \cup {<<d>> : d \in InDatagrams}

\* InNetwork.process_events(mask), called for the mask the selector reports
\* when `arrived` (no datagram, or one) waits in the socket's receive buffer,
\* once the harness has bound the input queue.
InNetworkProcessEvents(arrived) ==
    LET mask == SelectMask(sel["in"], arrived)
        observed == [called |-> TRUE, mask |-> mask, length |-> in_message_length,
                     received |-> FALSE, nrecv |-> 0, buffer |-> in_recv_buffer,
                     over |-> in_over, error |-> "none",
                     qbefore |-> in_queue, qafter |-> in_queue]
    IN
    /\ queue_bound["in"]
    /\ sel["in"] # 0
    /\ mask # 0
    /\ IF ~read_ready(mask)
       THEN /\ in_last' = observed
            /\ UNCHANGED <<in_clients, in_recv_buffer, in_queue, in_over>>
       ELSE IF arrived = <<>>
       THEN \* self.receive(): recvfrom on the non-blocking socket raises
            /\ in_last' = [observed EXCEPT !.error = "BlockingIOError"]
            /\ UNCHANGED <<in_clients, in_recv_buffer, in_queue, in_over>>
       ELSE LET r == recvfrom(arrived, in_message_length)
                buffer == in_recv_buffer \o r.msg
                over == IF in_over = 0 /\ Len(buffer) > in_message_length
                        THEN Len(buffer) ELSE in_over
                seen == [observed EXCEPT !.received = TRUE, !.nrecv = Len(r.msg),
                                         !.buffer = buffer,
                                         !.over = over]
            IN
            /\ Len(buffer) <= MaxBuffer
            /\ in_clients' = _add_client(in_clients, r.addr)
            /\ IF enough_bytes_read(buffer, in_message_length)
               THEN IF Decodable(buffer)
                    THEN /\ in_queue' = InQueuePut(in_queue,
                                                   decoder(buffer, in_byte_ordering))
                         /\ in_recv_buffer' = clean_up(buffer)
                         /\ in_over' = IF in_recv_buffer' = <<>> THEN 0 ELSE over
                         /\ in_last' = [seen EXCEPT !.qafter = in_queue']
                    ELSE \* the decoder raises: nothing after it runs
                         /\ in_recv_buffer' = buffer
                         /\ in_over' = over
                         /\ in_last' = [seen EXCEPT !.error = "CodecError"]
                         /\ UNCHANGED in_queue
               ELSE /\ in_recv_buffer' = buffer
                    /\ in_over' = over
                    /\ in_last' = seen
                    /\ UNCHANGED in_queue
    /\ UNCHANGED <<loader_byte_ordering, loader_call, link_vars, sel, out_vars, in_sock, in_byte_ordering,
                   in_message_length>>

\* process_events while the simulation thread has left room in the input queue
InProcessEvents(arrived) ==
    /\ Len(in_queue) < MaxInQueue
    /\ InNetworkProcessEvents(arrived)

\* The simulation thread takes the oldest record from the input queue
SimGet ==
    /\ in_queue # <<>>
    /\ in_queue' = Tail(in_queue)
    /\ UNCHANGED <<loader_byte_ordering, loader_call, link_vars, sel, out_vars, in_sock, in_clients,
                   in_byte_ordering, in_message_length, in_recv_buffer, in_over,
                   in_last>>

NextIn ==
    \/ \E mode \in Modes \cup {"x"}, bind_ok \in BOOLEAN : InInitialise(mode, bind_ok)
    \/ set_queue("in")
    \/ \E value \in MessageLengths : set_message_length(value)
    \/ \E value \in ByteOrders : set_byte_ordering(value)
    \/ \E arrived \in Arrivals : InProcessEvents(arrived)
    \/ SimGet

SpecIn == Init /\ [][NextIn]_vars

\* the datagrams of peers that send frames in pieces: a header byte alone
\* or followed by payload, and payload of one byte
FrameArrivals ==
    {<<d>> : d \in {e \in InDatagrams :
                        /\ e.data # <<>>
                        /\ (e.data[1] = HeaderByte \/ Len(e.data) = 1)}}

\* process_events while the input queue holds fewer than MaxRecords records
\* the simulation thread has not taken yet
InProcessFrames(arrived) ==
    /\ Len(in_queue) < MaxRecords
    /\ InNetworkProcessEvents(arrived)

NextFrames ==
    \/ \E mode \in {"r", "rw"} : InInitialise(mode, TRUE)
    \/ set_queue("in")
    \/ \E value \in MessageLengths : set_message_length(value)
    \/ \E arrived \in FrameArrivals : InProcessFrames(arrived)
    \/ SimGet

SpecFrames == Init /\ [][NextFrames]_vars

---------------------------------------------------------------------------
(* NetworkLoader.get_networks and the pair of channels *)

\* get_networks without the set_byte_ordering calls: the channel keeps the
\* ordering its constructor gave it
channel_byte_ordering_kept(loader_ordering, constructed) == constructed

\* out_network.set_byte_ordering(self.byte_ordering) and the same call on
\* in_network: the ordering the channel holds afterwards
channel_byte_ordering(loader_ordering, constructed) == loader_ordering

\* NetworkLoader.get_networks: constructs the OutNetwork, initialises it in
\* mode 'rw' and gives it the loader's byte ordering, then does the same
\* with the InNetwork in mode 'r', and returns both.  A bind that fails
\* (bind_out, bind_in false) raises OSError out of get_networks: what was
\* done before stays done.  It reads self.settings, which
\* NetworkLoader.initialise stores.
get_networks(send_on_demand, dest, bind_out, bind_in) ==
    LET called == [NoCall EXCEPT !.op = "get_networks", !.sock = out_sock,
                                 !.events = sel["out"]]
    IN
    /\ loader_call.token # "none"
    /\ out_sock = "none"
    /\ in_sock = "none"
    \* the constructors leave queue = None
    /\ queue_bound' = [c \in {"out", "in"} |-> FALSE]
    /\ out_settings' = [send_on_demand |-> send_on_demand,
                        destination_address |-> dest.destination_address,
                        destination_ports |-> dest.destination_ports,
                        set |-> TRUE]
    /\ IF ~bind_out
       THEN /\ out_sock' = "unbound"
            /\ out_call' = [called EXCEPT !.error = "OSError"]
            /\ UNCHANGED <<sel, out_clients, out_byte_ordering, in_sock,
                           in_byte_ordering>>
       ELSE /\ out_sock' = "bound"
            /\ out_clients' = add_client_list(out_clients,
                   zip(dest.destination_address, dest.destination_ports))
            /\ out_byte_ordering' =
                   channel_byte_ordering(loader_byte_ordering, out_byte_ordering)
            /\ IF ~bind_in
               THEN /\ in_sock' = "unbound"
                    /\ sel' = [sel EXCEPT !["out"] = get_events("rw")]
                    /\ out_call' = [called EXCEPT !.error = "OSError"]
                    /\ UNCHANGED in_byte_ordering
               ELSE /\ in_sock' = "bound"
                    /\ sel' = [sel EXCEPT !["out"] = get_events("rw"),
                                          !["in"] = get_events("r")]
                    /\ in_byte_ordering' =
                           channel_byte_ordering(loader_byte_ordering, in_byte_ordering)
                    /\ out_call' = called
    /\ UNCHANGED <<loader_byte_ordering, loader_call, out_pc, out_queue,
                   out_inbox, out_puts, latest, out_last, out_old_socks, in_clients,
                   in_message_length, in_recv_buffer, in_queue, in_over, in_last>>

\* Network.close on the input channel
InClose ==
    /\ IF in_sock = "bound" /\ sel["in"] # 0
       THEN /\ sel' = unregister(sel, "in")
            /\ in_sock' = "closed"
       ELSE UNCHANGED <<sel, in_sock>>
    /\ UNCHANGED <<loader_byte_ordering, loader_call, link_vars, out_vars, in_clients,
                   in_byte_ordering, in_message_length, in_recv_buffer, in_queue,
                   in_over, in_last>>

\* the datagrams that reach the input channel of the pair: a header byte
PairArrivals == {<<[src |-> peer, data |-> <<HeaderByte>>]>> : peer \in InPeers}

NextPair ==
    \/ \E token \in {"little", "big"} : NetworkLoaderInitialise(token)
    \/ \E send_on_demand \in BOOLEAN, dest \in LifeDestinations,
          bind_out \in BOOLEAN, bind_in \in BOOLEAN :
            get_networks(send_on_demand, dest, bind_out, bind_in)
    \/ \E channel \in {"out", "in"} : set_queue(channel)
    \/ SimPut
    \/ \E arrived \in PairArrivals : InProcessEvents(arrived)
    \/ OutClose
    \/ InClose

SpecPair == Init /\ [][NextPair]_vars

---------------------------------------------------------------------------
(* InNetwork: reassembly of fixed-length records *)

\* the last process_events call of the input channel received a datagram
InReceived == in_last.called /\ in_last.received

\* the buffer as the last call left it after appending the datagram reached
\* exactly the message length, and the decoder accepts it
InFrameComplete ==
    /\ InReceived
    /\ Len(in_last.buffer) = in_last.length
    /\ Decodable(in_last.buffer)

\* C1: when the datagrams accumulated since the buffer was last empty sum to
\* exactly the expected length (every earlier sum being below it), the event
\* of the last datagram puts exactly one decoded record on the input queue and
\* leaves the receive buffer empty; the events of the earlier datagrams, whose
\* sum is still below the expected length, put nothing and keep the bytes.
C1_Reassembly ==
    /\ InFrameComplete =>
          /\ \E order \in ByteOrders :
                in_last.qafter = Append(in_last.qbefore, decoder(in_last.buffer, order))
          /\ in_recv_buffer = <<>>
    /\ (InReceived /\ Len(in_last.buffer) < in_last.length) =>
          /\ in_last.qafter = in_last.qbefore
          /\ in_recv_buffer = in_last.buffer

\* a record of three bytes completed by a datagram that brought the last byte
C1_Witness ==
    /\ InFrameComplete
    /\ in_last.length = 3
    /\ in_last.nrecv = 1
    /\ Len(in_last.qafter) = Len(in_last.qbefore) + 1

\* C2: whenever an event makes the accumulated buffer longer than the
\* expected length, no record is put on the queue and the buffer is empty
\* when process_events returns.
C2_ViolationResync ==
    (InReceived /\ Len(in_last.buffer) > in_last.length) =>
        /\ in_last.qafter = in_last.qbefore
        /\ in_recv_buffer = <<>>

\* C3: between process_events calls the receive buffer is strictly shorter
\* than the expected length (stated for calls that completed without an
\* exception, with the expected length as it was at the call).
C3_BufferBelowLength ==
    (InReceived /\ in_last.error = "none" /\ in_last.length = in_message_length) =>
        Len(in_recv_buffer) < in_message_length

\* the bytes delivered since the event at which the buffer overshot
InSinceOvershoot == SubSeq(in_last.buffer, in_last.over + 1, Len(in_last.buffer))

\* C4: after the buffer was driven past the expected length, once the peer
\* has delivered a well-formed frame (datagrams summing to exactly the
\* expected length, which the decoder accepts) the channel has put its
\* record on the queue.
C4_RecoversAfterOvershoot ==
    (/\ InReceived
     /\ in_last.over > in_last.length
     /\ Len(InSinceOvershoot) = in_last.length
     /\ Decodable(InSinceOvershoot)) =>
        Len(in_last.qafter) = Len(in_last.qbefore) + 1

---------------------------------------------------------------------------
(* OutNetwork: what a readiness event transmits *)

\* the last process_events call of the output channel took a snapshot from the queue
OutDequeued == out_last.called /\ out_last.dequeued # NoSnapshot

\* the last call received a request datagram
OutRequested == out_last.called /\ out_last.request # NoAddr

\* the payloads of the datagrams the last call sent
OutPayloads == {out_last.sent[i].payload : i \in 1..Len(out_last.sent)}

\* the addresses the last call sent a datagram to
OutDests == {out_last.sent[i].dest : i \in 1..Len(out_last.sent)}

\* the number of datagrams the last call sent to `addr`
OutSentTo(addr) == Cardinality({i \in 1..Len(out_last.sent) : out_last.sent[i].dest = addr})

\* C5: latest wins.  Whatever was written to the output queue before an
\* event, the event takes the most recently written snapshot only: every
\* datagram it sends carries that snapshot's encoding, so exactly one payload
\* is transmitted (to each registered client) and a superseded snapshot is
\* never transmitted by this or any later event.  In push mode an event finds
\* the written snapshot whenever one is unread.
C5_LatestWins ==
    /\ OutDequeued =>
          /\ out_last.dequeued = out_last.latest
          /\ \A i \in 1..Len(out_last.sent) :
                out_last.sent[i].payload = encode(out_last.latest)
          /\ (out_last.error = "none" /\ out_clients # <<>>) =>
                OutPayloads = {encode(out_last.latest)}
    /\ (out_last.called /\ ~OutDequeued) => out_last.sent = <<>>
    /\ (out_last.called /\ ~out_settings.send_on_demand /\ out_last.puts > 0) =>
          OutDequeued

\* two snapshots were written before the event, which sent the second one
C5_Witness ==
    /\ OutDequeued
    /\ ~out_settings.send_on_demand
    /\ out_last.puts = 2
    /\ out_last.dequeued.value = 2
    /\ out_last.error = "none"
    /\ OutPayloads = {encode(out_last.dequeued)}

\* C6: in on-demand mode a request from client C yields exactly one reply
\* datagram, addressed to C only and carrying the queued snapshot.
C6_ReplyToRequesterOnly ==
    (/\ OutRequested
     /\ out_settings.send_on_demand
     /\ OutDequeued
     /\ out_last.error = "none") =>
        out_last.sent = <<[dest |-> out_last.request,
                           payload |-> encode(out_last.dequeued)]>>

\* C7: in on-demand mode a readiness event in which no request datagram was
\* received sends no datagram.
C7_OnDemandOnlyOnRequest ==
    (out_last.called /\ out_settings.send_on_demand /\ ~OutRequested) =>
        out_last.sent = <<>>

\* an on-demand event with an unread snapshot in the queue and no request
C7_Witness ==
    /\ out_last.called
    /\ out_settings.send_on_demand
    /\ ~OutRequested
    /\ out_last.puts > 0
    /\ out_clients # <<>>

\* C8: in on-demand mode, once a snapshot has been queued, every request is
\* answered with the most recent snapshot, also when none was produced since
\* the previous reply.
C8_StaleReply ==
    (/\ OutRequested
     /\ out_settings.send_on_demand
     /\ out_last.latest # NoSnapshot
     /\ out_last.error = "none") =>
        \E i \in 1..Len(out_last.sent) :
            out_last.sent[i] = [dest |-> out_last.request,
                                payload |-> encode(out_last.latest)]

\* C9: a request handled while the output queue has never been written
\* results in no datagram sent and no exception out of the handler.
C9_NoSnapshotNoReply ==
    (OutRequested /\ out_last.latest = NoSnapshot) =>
        /\ out_last.sent = <<>>
        /\ out_last.error = "none"

\* a request was handled before any snapshot was written
C9_Witness ==
    /\ OutRequested
    /\ out_settings.send_on_demand
    /\ out_last.latest = NoSnapshot
    /\ out_clients # <<>>

\* the configured destinations as (host, port) pairs
OutDestinations ==
    {<<out_settings.destination_address[i], out_settings.destination_ports[i]>> :
        i \in (1..Len(out_settings.destination_address))
              \cap (1..Len(out_settings.destination_ports))}

\* C10: in push mode an event that finds a snapshot sends exactly one
\* datagram to each configured destination, all with the same payload (the
\* snapshot's encoding), and sends to no other address.
C10_PushFanOut ==
    (/\ OutDequeued
     /\ ~out_settings.send_on_demand
     /\ out_last.error = "none") =>
        /\ \A addr \in Address :
              OutSentTo(addr) = (IF addr \in OutDestinations THEN 1 ELSE 0)
        /\ OutDests \subseteq Address
        /\ \A i \in 1..Len(out_last.sent) :
              out_last.sent[i].payload = encode(out_last.dequeued)

\* push mode with destinations [A, B]: one snapshot written, one event, two datagrams
C10_Witness ==
    /\ OutDequeued
    /\ ~out_settings.send_on_demand
    /\ out_last.puts = 1
    /\ out_last.error = "none"
    /\ OutDestinations = {<<"A", 1>>, <<"B", 1>>}
    /\ Len(out_last.sent) = 2

---------------------------------------------------------------------------
(* Network: the life of a channel *)

\* the last call was close() on a channel whose socket was bound and registered
OutClosedFirst ==
    out_call.op = "close" /\ out_call.sock = "bound" /\ out_call.events # 0

\* the last call was close() on a channel that close() had already closed
OutClosedAgain == out_call.op = "close" /\ out_call.sock = "closed"

\* C11: close() on an initialised channel raises no error and leaves the
\* socket unregistered and released; a second close() raises no error
\* either and changes nothing.
C11_IdempotentClose ==
    /\ OutClosedFirst =>
          /\ out_call.error = "none"
          /\ out_sock = "closed"
          /\ sel["out"] = 0
    /\ OutClosedAgain =>
          /\ out_call.error = "none"
          /\ out_sock = "closed"
          /\ sel["out"] = 0

\* the number of entries of the output channel's clients equal to `addr`
OutClientEntries(addr) ==
    Cardinality({i \in 1..Len(out_clients) : out_clients[i] = addr})

\* C12: after any sequence of initialise, add_client and receive calls the
\* clients list holds each (host, port) at most once, and the sender of a
\* received datagram exactly once, however many datagrams it has sent.
C12_ClientsDistinct ==
    /\ \A addr \in Address : OutClientEntries(addr) <= 1
    /\ (out_call.op = "receive" /\ out_call.error = "none") =>
          OutClientEntries(out_call.src) = 1

\* three datagrams in a row from one source, received by a channel that has
\* another client as well
C12_Witness ==
    /\ out_call.op = "receive"
    /\ out_call.run = 3
    /\ OutClientEntries(out_call.src) = 1
    /\ Len(out_clients) = 2

\* the last call was OutNetwork.initialise in push mode with no destination
OutPushWithoutDestination ==
    /\ out_call.op = "initialise"
    /\ ~out_settings.send_on_demand
    /\ out_settings.destination_address = <<>>

\* C13: OutNetwork.initialise in push mode (send_on_demand false) with an
\* empty destination list raises, and the channel is not left registered
\* with the selector.
C13_PushNeedsDestination ==
    OutPushWithoutDestination =>
        /\ out_call.error # "none"
        /\ sel["out"] = 0

\* the last call was initialise and its bind raised
OutBindFailed == out_call.op = "initialise" /\ out_call.error = "OSError"

\* the registrations the selector holds with the output channel as data
OutRegistrations == (IF sel["out"] # 0 THEN 1 ELSE 0) + Len(out_old_socks)

\* C14: when binding fails during initialise the error propagates and the
\* selector holds no registration for the channel.
C14_BindFailureUnregistered ==
    /\ (out_call.op = "initialise" /\ out_sock = "unbound") => OutBindFailed
    /\ OutBindFailed => OutRegistrations = 0

\* the lifecycle state of the output channel: BOUND while self.sock is a
\* bound socket, CLOSED once close() has closed it, UNINIT otherwise
OutState ==
    IF out_sock = "bound" THEN "BOUND"
    ELSE IF out_sock = "closed" THEN "CLOSED"
    ELSE "UNINIT"

\* the transitions of the lifecycle: initialise and close
LifecycleTransitions == {<<"UNINIT", "BOUND">>, <<"BOUND", "CLOSED">>}

\* C18: the channel's state changes only from UNINIT to BOUND (initialise)
\* and from BOUND to CLOSED (close), CLOSED being terminal, and in every
\* reachable state the socket is registered with the selector exactly when
\* the channel is BOUND.
C18_Lifecycle ==
    /\ []((sel["out"] # 0) <=> (OutState = "BOUND"))
    /\ [][OutState' # OutState => <<OutState, OutState'>> \in LifecycleTransitions]_vars

\* the open sockets the output channel has created
OutOpenSockets ==
    (IF out_sock \in {"bound", "unbound"} THEN 1 ELSE 0) + Len(out_old_socks)

\* C19: after any sequence of initialise and close calls, initialise twice
\* included, the channel has at most one open socket and the selector holds
\* at most one registration for it.
C19_OneSocketPerChannel ==
    /\ OutOpenSockets <= 1
    /\ OutRegistrations <= 1

---------------------------------------------------------------------------
(* Errors inside process_events *)

\* the exceptions sock.sendto and sock.recvfrom raise
TransportErrors == {"OSError", "BlockingIOError"}

\* C15: an error raised by the socket's send or receive inside
\* process_events does not leave the callback (out_last.error is the
\* exception that ended the call and reached its caller, the I/O loop), so
\* the loop goes on to the other ready channels.
C15_ErrorIsolation ==
    out_last.called => out_last.error \notin TransportErrors

\* the last call of the input channel brought the buffer to exactly the
\* message length and the decoder rejects it
InDecodeFailed ==
    /\ InReceived
    /\ Len(in_last.buffer) = in_last.length
    /\ ~Decodable(in_last.buffer)

\* C16: when the buffer reaches exactly the expected length and the decoder
\* fails, process_events returns without an exception, puts no record on
\* the queue and leaves the buffer empty (so that later frames are handled
\* normally).
C16_DecodeFailureResets ==
    InDecodeFailed =>
        /\ in_last.error = "none"
        /\ in_last.qafter = in_last.qbefore
        /\ in_recv_buffer = <<>>

---------------------------------------------------------------------------
(* NetworkLoader: byte ordering *)

\* C17: NetworkLoader.initialise resolves 'little' to "<" and 'big' to ">"
\* and returns; with any other token it raises, and the failing call
\* constructs no channel: no socket is created, bound or registered by it.
C17_ByteOrderResolution ==
    /\ [](/\ (loader_call.token = "little") =>
                (loader_byte_ordering = "<" /\ loader_call.error = "none")
          /\ (loader_call.token = "big") =>
                (loader_byte_ordering = ">" /\ loader_call.error = "none")
          /\ (loader_call.token \notin {"none", "little", "big"}) =>
                loader_call.error = "KeyError")
    /\ [][(loader_call' # loader_call /\ loader_call'.error # "none") =>
              UNCHANGED <<sel, out_sock, in_sock, out_old_socks>>]_vars

\* initialise was called with an unknown token after it had resolved 'big',
\* before any channel was initialised
C17_Witness ==
    /\ loader_call.token = "other"
    /\ loader_byte_ordering = ">"
    /\ out_sock = "none"
    /\ in_sock = "none"

---------------------------------------------------------------------------
(* Dispatch on the readiness mask *)

\* the mask includes the event (bitwise)
MaskIncludes(mask, event) == (mask \div event) % 2 = 1

\* the last call of OutNetwork.process_events attempted a receive
OutReceiveAttempted ==
    out_last.called /\ (OutRequested \/ out_last.error = "BlockingIOError")

\* C20: process_events performs its read action (receive) only when the
\* mask includes EVENT_READ and its write action (take a snapshot and send)
\* only when the mask includes EVENT_WRITE; an OutNetwork registered 'rw'
\* attempts no receive on a write-only event.
C20_MaskDispatch ==
    /\ OutReceiveAttempted => MaskIncludes(out_last.mask, EVENT_READ)
    /\ OutDequeued => MaskIncludes(out_last.mask, EVENT_WRITE)

---------------------------------------------------------------------------
(* OutNetwork.process_events and the simulation thread *)

\* C21: with the simulation thread writing the output queue at any moment
\* (each put replacing the unread value), process_events never waits in
\* queue.get(): whenever the emptiness test let it pass, the queue still
\* holds an item when get is reached.
C21_GetNeverBlocks ==
    /\ out_pc = "get" => out_queue # <<>>
    /\ out_pc # "blocked"

\* the call stands before queue.get() and the simulation thread has written
\* the queue since the emptiness test
C21_Witness ==
    /\ out_pc = "get"
    /\ out_puts > out_last.puts
    /\ out_last.puts > 0

---------------------------------------------------------------------------
(* InNetwork: what one event reads and puts *)

\* the length of the receive buffer when the last call began
InBufferBefore == Len(in_last.buffer) - in_last.nrecv

\* C22: on each event the input channel reads at most the bytes missing
\* from the current frame (the expected length minus the buffer length), so
\* one receive never returns more bytes than are missing.
C22_BoundedRead ==
    InReceived => in_last.nrecv <= in_last.length - InBufferBefore

\* C23: every frame completion (the buffer reaches exactly the expected
\* length and decodes) puts exactly one record, at the tail of the input
\* queue, so records are queued in the order their frames completed and
\* none is dropped; an event that leaves the buffer below the expected
\* length puts nothing.
C23_LosslessOrdered ==
    /\ InFrameComplete =>
          in_last.qafter = in_last.qbefore \o <<decoder(in_last.buffer, in_byte_ordering)>>
    /\ (InReceived /\ Len(in_last.buffer) < in_last.length) =>
          in_last.qafter = in_last.qbefore
    /\ \E taken \in 0..Len(in_last.qafter) :
          in_queue = SubSeq(in_last.qafter, taken + 1, Len(in_last.qafter))

\* a second frame completed while the record of the first was still queued:
\* two different records wait, the older one first
C23_Witness ==
    /\ InFrameComplete
    /\ Len(in_last.qbefore) = 1
    /\ in_queue = in_last.qafter
    /\ in_queue[1] # in_queue[2]
    /\ in_queue[2] = decoder(in_last.buffer, in_byte_ordering)

\* C24: once the input channel has handled an event, the expected message
\* length keeps the value it had at that event, and it is never below the
\* length of a partially filled buffer.
C24_LengthFixed ==
    in_last.called =>
        /\ in_message_length = in_last.length
        /\ (Len(in_last.buffer) < in_last.length /\ in_recv_buffer = in_last.buffer) =>
              Len(in_recv_buffer) <= in_message_length

---------------------------------------------------------------------------
(* Network.receive and Network.send *)

\* the last call was a receive that returned
OutReceived == out_call.op = "receive" /\ out_call.error = "none"

\* C25: every successful receive leaves the datagram's source in clients
\* exactly once (added if absent, no change if present) and returns both
\* the raw bytes and the sender address.
C25_ReceiveReturnsSender ==
    OutReceived =>
        /\ OutClientEntries(out_call.src) = 1
        /\ Len(out_call.returned) = 2
        /\ out_call.returned[2] = out_call.src

\* the last call was a send in which no sock.sendto raised
OutSendDone == out_call.op = "send" /\ out_call.error = "none"

\* C26: send(payload, d) makes exactly one socket send, to d, when d is a
\* single address; when d is a list it makes exactly one per element, in
\* list order, each with the same payload; an empty list makes none.
C26_SendDispatch ==
    /\ (OutSendDone /\ out_call.dest.type = "tuple") =>
          out_call.sent = <<[dest |-> out_call.dest.value, payload |-> out_call.msg]>>
    /\ (OutSendDone /\ out_call.dest.type = "list") =>
          /\ Len(out_call.sent) = Len(out_call.dest.value)
          /\ \A i \in 1..Len(out_call.sent) :
                out_call.sent[i] = [dest |-> out_call.dest.value[i],
                                    payload |-> out_call.msg]

\* a send to a list of two different addresses
C26_Witness ==
    /\ OutSendDone
    /\ out_call.dest.type = "list"
    /\ Len(out_call.sent) = 2
    /\ out_call.sent[1].dest # out_call.sent[2].dest

---------------------------------------------------------------------------
(* The pair of channels get_networks returns *)

\* C27: when get_networks returns, the output channel and the input channel
\* are both bound and registered with the selector, both hold the byte
\* ordering the loader resolved, and neither has a queue bound.
C27_FactoryPair ==
    [][(out_call'.op = "get_networks" /\ out_call'.error = "none"
            /\ out_call.op # "get_networks") =>
          /\ out_sock' = "bound" /\ sel'["out"] = get_events("rw")
          /\ in_sock' = "bound" /\ sel'["in"] = get_events("r")
          /\ out_byte_ordering' = loader_byte_ordering'
          /\ in_byte_ordering' = loader_byte_ordering'
          /\ ~queue_bound'["out"]
          /\ ~queue_bound'["in"]]_vars

\* get_networks has returned the pair to a loader that resolved 'big'
C27_Witness ==
    /\ out_call.op = "get_networks"
    /\ out_call.error = "none"
    /\ loader_call.token = "big"
    /\ out_byte_ordering = ">"
    /\ in_byte_ordering = ">"
    /\ out_sock = "bound"
    /\ in_sock = "bound"
    /\ queue_bound = [c \in {"out", "in"} |-> FALSE]

\* the step is a call of close() on the output channel
OutCloseStep == out_call'.op = "close" /\ out_call' # out_call

\* C28: close() unregisters and closes the channel's own socket only: it
\* leaves the queue bound to the channel, the contents of the queues and the
\* clients list as they were.
C28_CloseLeavesQueue ==
    [][OutCloseStep =>
          /\ UNCHANGED <<queue_bound, out_queue, in_queue, out_clients>>
          /\ sel' \in {sel, unregister(sel, "out")}]_vars

\* the output channel was closed with a snapshot waiting in its queue and
\* clients registered
C28_Witness ==
    /\ out_call.op = "close"
    /\ out_call.error = "none"
    /\ out_sock = "closed"
    /\ queue_bound["out"]
    /\ out_queue # <<>>
    /\ out_clients # <<>>

\* the step is a call of close() that closes the input channel
InCloseStep == in_sock' = "closed" /\ in_sock # "closed"

\* C29: all channels register in the one module-level selector, yet
\* close() on one channel leaves the registration, the socket, the clients
\* and the buffer of the other channel unchanged.
C29_CloseIsLocal ==
    [][/\ OutCloseStep =>
             /\ sel'["in"] = sel["in"]
             /\ UNCHANGED <<in_sock, in_clients, in_recv_buffer>>
       /\ InCloseStep =>
             /\ sel'["out"] = sel["out"]
             /\ UNCHANGED <<out_sock, out_clients, out_old_socks>>]_vars

\* the output channel is closed while the input channel, which holds a
\* client and part of a frame, is still bound and registered
C29_Witness ==
    /\ out_call.op = "close"
    /\ out_sock = "closed"
    /\ in_sock = "bound"
    /\ sel["in"] = get_events("r")
    /\ in_clients # <<>>
    /\ in_recv_buffer # <<>>

---------------------------------------------------------------------------
(* OutNetwork: one snapshot per event *)

\* the step is a call of OutNetwork.process_events
OutEventStep == out_last'.called /\ out_last' # out_last

\* C30: a process_events call takes at most one item from the output queue,
\* takes one only when the queue is not empty, and when the queue is empty
\* it sends nothing, does not wait, and leaves the queue empty.
C30_OneSnapshotPerEvent ==
    /\ [](out_last.called =>
             /\ OutDequeued => out_last.puts > 0
             /\ (out_last.puts = 0) =>
                   /\ ~OutDequeued
                   /\ out_last.sent = <<>>
                   /\ out_last.error # "blocked")
    /\ [][OutEventStep =>
             /\ Len(out_queue') >= Len(out_queue) - 1
             /\ (out_queue = <<>>) => (out_queue' = <<>>)
             /\ OutDequeued' <=> (Len(out_queue') = Len(out_queue) - 1)]_vars

\* a push-mode event on a writable socket with clients and an empty queue
C30_Witness ==
    /\ out_last.called
    /\ ~out_settings.send_on_demand
    /\ out_last.mask = EVENT_WRITE
    /\ out_last.puts = 0
    /\ out_last.latest # NoSnapshot
    /\ out_last.error = "none"
    /\ out_clients # <<>>

---------------------------------------------------------------------------
(* OutNetwork: what becomes of a snapshot taken from the queue *)

\* C31: no snapshot is consumed without being transmitted.  An event that
\* takes a snapshot from the output queue sends it to at least one address;
\* a snapshot is never taken while the clients registry is empty.
C31_ConsumedIsTransmitted ==
    OutDequeued =>
        /\ out_last.sent # <<>>
        /\ out_clients # <<>>

---------------------------------------------------------------------------
(* OutNetwork: the clients registry over the life of one channel object *)

\* One output channel object that is initialised (also again), receives
\* requests, is given clients by its owner, serves events and is closed.
NextClients ==
    \/ \E send_on_demand \in BOOLEAN, dest \in LifeDestinations :
            OutNetworkInitialise("rw", send_on_demand, dest, TRUE)
    \/ set_queue("out")
    \/ SimPut
    \/ OutDeliver(<<"C", 2>>, <<>>)
    \/ \E fail_at \in 0..(Len(out_clients) + 1) : OutProcessEvents(fail_at)
    \/ \E client_addr \in AddClientArgs : OutAddClient(client_addr)
    \/ OutClose

SpecClients == Init /\ [][NextClients]_vars

\* the addresses in the clients registry
OutClientSet == {out_clients[i] : i \in 1..Len(out_clients)}

\* C32: the clients registry only grows.  No operation on the channel
\* removes an address from clients: an address registered as a configured
\* destination, as the sender of a received datagram or by add_client stays
\* registered through every later call (initialise again, close included).
\* An event that sends a snapshot (and in which no sendto raises) sends it
\* to every address registered at that time.
C32_ClientsOnlyGrow ==
    [][/\ OutClientSet \subseteq OutClientSet'
       /\ (/\ OutEventStep
           /\ out_last'.dequeued # NoSnapshot
           /\ out_last'.error = "none") =>
              \A i \in 1..Len(out_clients') :
                  \E j \in 1..Len(out_last'.sent) :
                      out_last'.sent[j].dest = out_clients'[i]]_vars

\* an event sent a snapshot to a configured destination and to the sender of
\* a request; the channel was closed afterwards and still has both clients
C32_Witness ==
    /\ OutDequeued
    /\ OutRequested
    /\ out_last.error = "none"
    /\ OutDests = {<<"A", 1>>, out_last.request}
    /\ out_last.request # <<"A", 1>>
    /\ out_call.op = "close"
    /\ out_call.error = "none"
    /\ OutClientSet = OutDests

---------------------------------------------------------------------------
(* OutNetwork: push mode *)

\* C33: push mode never reads.  With send_on_demand false no call of
\* process_events, whatever its mask, calls receive: the call leaves the
\* datagrams waiting in the socket where they are and the clients as they
\* were, so the clients are the configured destinations.
C33_PushNeverReads ==
    /\ []((out_last.called /\ ~out_settings.send_on_demand) =>
             /\ ~OutReceiveAttempted
             /\ OutClientSet = OutDestinations)
    /\ [][(out_last' # out_last /\ ~out_settings.send_on_demand) =>
             /\ out_inbox' = out_inbox
             /\ out_clients' = out_clients]_vars

\* a push-mode event whose mask includes EVENT_READ: a datagram waits in the
\* socket, and the destination is the only client
C33_Witness ==
    /\ out_last.called
    /\ ~out_settings.send_on_demand
    /\ MaskIncludes(out_last.mask, EVENT_READ)
    /\ out_inbox # <<>>
    /\ OutDequeued
    /\ OutDests = {<<"A", 1>>}
    /\ OutClientSet = {<<"A", 1>>}

---------------------------------------------------------------------------
(* Network.initialise: the events of the mode *)

\* the last call was an initialise that get_events ended with ValueError
OutModeRejected == out_call.op = "initialise" /\ out_call.error = "ValueError"

\* C34: get_events maps 'r' to EVENT_READ, 'w' to EVENT_WRITE and 'rw' to
\* both, and raises ValueError for any other mode; an initialise with an
\* invalid mode raises before the socket is registered, so the selector
\* holds no registration for the channel afterwards.
C34_InvalidModeUnregistered ==
    /\ get_events("r") = EVENT_READ
    /\ get_events("w") = EVENT_WRITE
    /\ get_events("rw") = EVENT_READ + EVENT_WRITE
    /\ \A mode \in {"x", "", "wr"} : get_events(mode) = -1
    /\ OutModeRejected => OutRegistrations = 0

=============================================================================
